---- MODULE Spec2Model ----
(***************************************************************************)
(* Model of RayGenerator (src/ray_generator.py): the generation of sonar   *)
(* rays and their energy loss by angular deviation, absorption and         *)
(* reflection.                                                             *)
(*                                                                         *)
(* Number representation.  The program computes on IEEE doubles; the model *)
(* computes on integers:                                                   *)
(*   - an angle of x degrees is the integer x * DegUnit (DegUnit = 2^20),  *)
(*     read as a whole number of degrees plus a residue counted in units   *)
(*     of 2^-52 degree, the spacing of the doubles in [1, 2).  Sums and    *)
(*     differences of angles are rounded to the spacing of the doubles at  *)
(*     the magnitude of the result (Fl), half to even, as the program's    *)
(*     + and - are;                                                        *)
(*   - an angle in radians is twice the integer of the same angle in       *)
(*     degrees (units of pi/360).  degrees(radians(d)) is not d: for the   *)
(*     whole degrees d of RoundedUp and RoundedDown, math.degrees returns  *)
(*     the double next above or next below d;                              *)
(*   - an energy is a double in full: [sign, exponent, mantissa] is the    *)
(*     double sign * m * 2^exponent, sign in {-1, 0, 1}, where m is the    *)
(*     natural of MantissaBits bits (2^52 <= m < 2^53) whose digits in     *)
(*     base 2^DigitBits are mantissa[1] (the least significant) to         *)
(*     mantissa[4]; the double 0 is Zero.  The program's products (emul),  *)
(*     sums (eadd) and differences (esub) are computed exactly on the      *)
(*     naturals and rounded to the nearest double, half to even, and a     *)
(*     decimal literal (0.3, 0.35, 0.05) is the double nearest to it       *)
(*     (Literal).  Doubles below 2^-1022 are not reached.                  *)
(* A call that draws angles from the randomness source is the set of the   *)
(* lists of rays it can return, one for each behaviour of that source      *)
(* (Rngs).                                                                 *)
(* A binder x \in {e} fixes the value of e where it is used more than      *)
(* once, as the assignment to a local variable does.                       *)
(* Ray, UnitVector, AngleRange, Point and LineSegment are classes of the   *)
(* repository outside ray_generator.py; they are modelled from their       *)
(* description in the specification.                                       *)
(***************************************************************************)
EXTENDS Integers, Sequences, FiniteSets, TLC

VARIABLES phase, cur, root, spots, op, source, reflected, out, arc, hit,
          received, angle_a, angle_b, difference

vars == <<phase, cur, root, spots, op, source, reflected, out, arc, hit,
          received, angle_a, angle_b, difference>>

rayVars == <<phase, cur, root, spots, op, source, reflected, out, arc, hit,
             received>>
diffVars == <<angle_a, angle_b, difference>>

(***************************************************************************)
(* Bounds of the model.                                                    *)
(***************************************************************************)
ArcDraws == 3           \* distinct angles a sampler returns on one arc
MaxSpotlights == 1      \* spotlight generations along one derivation chain
MaxDistance == 100      \* pixels travelled along one derivation chain

RECURSIVE Pow(_, _)
Pow(b, n) == IF n = 0 THEN 1 ELSE b * Pow(b, n - 1)

abs(x) == IF x < 0 THEN 0 - x ELSE x

(***************************************************************************)
(* Angles as doubles.                                                      *)
(***************************************************************************)
DegUnit == Pow(2, 20)

\* the double of a whole number of degrees
Deg(d) == d * DegUnit

\* the whole number of degrees nearest to an angle
Whole(x) == (x + DegUnit \div 2) \div DegUnit

\* the spacing of the doubles at the magnitude a, in units of 2^-52 degree:
\* u below b degrees, doubled with every doubling of b
RECURSIVE Spacing(_, _, _)
Spacing(a, u, b) == IF a >= b THEN Spacing(a, 2 * u, 2 * b) ELSE u

Ulp(v) == Spacing(abs(v), 1, 2 * DegUnit)

\* the multiple of the spacing u nearest to e, the even one of two
RoundToEven(e, u) ==
    LET q == e \div u
        r == e % u
    IN  IF 2 * r < u THEN q * u
        ELSE IF 2 * r > u THEN (q + 1) * u
        ELSE IF q % 2 = 0 THEN q * u ELSE (q + 1) * u

\* rounding of an exact sum or difference to the nearest double, half to even
Fl(v) ==
    CHOOSE f \in {Deg(w) + RoundToEven(x - Deg(w), u) :
                     x \in {v}, w \in {Whole(v)}, u \in {Ulp(v)}} : TRUE

\* the program's + and - on angles in degrees
fadd(x, y) == Fl(x + y)
fsub(x, y) == Fl(x - y)

(***************************************************************************)
(* math.radians and math.degrees.  For a whole number d of degrees in      *)
(* 0 .. 360, math.degrees(math.radians(d)) is d, or the double next above  *)
(* d (RoundedUp), or the double next below d (RoundedDown).                *)
(***************************************************************************)
RoundedUp ==
    {3, 6, 12, 24, 29, 48, 57, 58, 59, 96, 105, 114, 116, 118, 123, 125, 127,
     192, 201, 210, 219, 228, 232, 236, 237, 241, 245, 246, 250, 254, 255}

RoundedDown == {15, 30, 60, 120, 231, 240, 249}

RoundTripError(d) ==
    IF d \in RoundedUp THEN Ulp(Deg(d))
    ELSE IF d \in RoundedDown THEN 0 - Ulp(Deg(d))
    ELSE 0

radians(x) == 2 * x

degrees(r) ==
    CHOOSE d \in {IF x = Deg(Whole(x)) THEN x + RoundTripError(Whole(x)) ELSE x :
                     x \in {r \div 2}} : TRUE

(***************************************************************************)
(* Energies as doubles.  The naturals of the exact results are sequences   *)
(* of digits in base 2^DigitBits, the least significant first.             *)
(***************************************************************************)
TwoTo == [k \in 0 .. 30 |-> Pow(2, k)]

\* digits of a natural, least significant first
DigitBits == 14
Base == TwoTo[DigitBits]
MantissaBits == 53        \* bits of the mantissa of a double
MantissaDigits == 4       \* digits of a mantissa
TopBits == MantissaBits - (MantissaDigits - 1) * DigitBits
WideDigits == 8           \* digits of an exact product, sum or difference
FractionDigits == 6       \* digits of a literal before it is rounded

Digit(n, i) == IF 1 <= i /\ i <= Len(n) THEN n[i] ELSE 0

\* the carries taken from the i-th column on
RECURSIVE Carried(_, _, _, _)
Carried(columns, i, carry, digits) ==
    IF i > Len(columns) THEN digits
    ELSE CHOOSE n \in
           {Carried(columns, i + 1, t \div Base, Append(digits, t % Base)) :
              t \in {columns[i] + carry}} : TRUE

\* the digits of the natural whose columns, of any size and of either sign,
\* are given
Digits(columns) ==
    CHOOSE n \in {Carried(c, 1, 0, <<>>) : c \in {columns}} : TRUE

Top(n) ==
    CHOOSE i \in 0 .. Len(n) :
        (i = 0 \/ n[i] # 0) /\ \A j \in i + 1 .. Len(n) : n[j] = 0

BitsOf(d) ==
    CHOOSE k \in 0 .. DigitBits : d < TwoTo[k] /\ (k = 0 \/ d >= TwoTo[k - 1])

BitLength(n) ==
    CHOOSE length \in
        {IF top = 0 THEN 0 ELSE DigitBits * (top - 1) + BitsOf(n[top]) :
           top \in {Top(n)}} : TRUE

ShiftLeft(n, k) ==
    [i \in 1 .. WideDigits |->
        ((Digit(n, i - (k \div DigitBits)) * TwoTo[(k % DigitBits)]) % Base)
          + (Digit(n, i - (k \div DigitBits) - 1)
               \div TwoTo[DigitBits - (k % DigitBits)])]

ShiftRight(n, k) ==
    [i \in 1 .. MantissaDigits |->
        (Digit(n, i + (k \div DigitBits)) \div TwoTo[(k % DigitBits)])
          + ((Digit(n, i + (k \div DigitBits) + 1) % TwoTo[(k % DigitBits)])
               * TwoTo[DigitBits - (k % DigitBits)])]

Bit(n, k) ==
    (Digit(n, (k \div DigitBits) + 1) \div TwoTo[(k % DigitBits)]) % 2

\* the bits of n below bit k are all 0
LowZero(n, k) ==
    /\ \A i \in 1 .. (k \div DigitBits) : Digit(n, i) = 0
    /\ Digit(n, (k \div DigitBits) + 1) % TwoTo[(k % DigitBits)] = 0

Less(a, b) ==
    \E i \in 1 .. WideDigits :
        /\ Digit(a, i) < Digit(b, i)
        /\ \A j \in i + 1 .. WideDigits : Digit(a, j) = Digit(b, j)

Zero == [sign |-> 0, exponent |-> 0, mantissa |-> <<0, 0, 0, 0>>]

Double(sign, exponent, mantissa) ==
    [sign |-> sign, exponent |-> exponent, mantissa |-> mantissa]

\* q + 1 in MantissaBits bits, the exponent one up when it takes one bit more
Successor(sign, exponent, q) ==
    CHOOSE f \in
        {IF m[MantissaDigits] = TwoTo[TopBits]
         THEN Double(sign, exponent + 1,
                     <<0, 0, 0, TwoTo[TopBits - 1]>>)
         ELSE Double(sign, exponent, m) :
           m \in {Digits(<<q[1] + 1, q[2], q[3], q[4]>>)}} : TRUE

\* the double nearest to sign * (n + rest) * 2^exponent, half to even, for a
\* natural n of k bits more than MantissaBits; sticky: 0 < rest < 1, else
\* rest = 0
RoundLong(sign, n, exponent, sticky, k) ==
    CHOOSE f \in
        {IF /\ Bit(n, k - 1) = 1
            /\ (sticky \/ ~LowZero(n, k - 1) \/ q[1] % 2 = 1)
         THEN Successor(sign, exponent + k, q)
         ELSE Double(sign, exponent + k, q) :
           q \in {<<x[1], x[2], x[3], x[4]>> :
                    x \in {ShiftRight(n, k)}}} : TRUE

RoundBits(sign, n, exponent, sticky, length) ==
    IF length = 0 THEN Zero
    ELSE IF length <= MantissaBits
    THEN CHOOSE f \in
           {Double(sign, exponent - (MantissaBits - length),
                   <<x[1], x[2], x[3], x[4]>>) :
              x \in {ShiftLeft(n, MantissaBits - length)}} : TRUE
    ELSE RoundLong(sign, n, exponent, sticky, length - MantissaBits)

RoundNatural(sign, n, exponent, sticky) ==
    CHOOSE f \in
        {RoundBits(sign, n, exponent, sticky, length) :
           length \in {BitLength(n)}} : TRUE

Round(sign, n, exponent, sticky) ==
    CHOOSE f \in {RoundNatural(sign, x, exponent, sticky) : x \in {n}} : TRUE

Sign(x) == IF x > 0 THEN 1 ELSE IF x < 0 THEN 0 - 1 ELSE 0

\* the double of a whole number
Integral(n) ==
    Round(Sign(n), <<abs(n) % Base, abs(n) \div Base>>, 0, FALSE)

\* the digits after the point of p / q < 1, and what is left of p
RECURSIVE Fraction(_, _, _, _)
Fraction(p, q, count, digits) ==
    IF count = 0 THEN <<digits, p>>
    ELSE Fraction((p * Base) % q, q, count - 1,
                  <<(p * Base) \div q>> \o digits)

\* the double of the decimal literal p / q, 0 < p < q
Literal(p, q) ==
    CHOOSE f \in
        {Round(1, x[1], 0 - FractionDigits * DigitBits, x[2] # 0) :
           x \in {Fraction(p, q, FractionDigits, <<>>)}} : TRUE

Negate(x) == Double(0 - x.sign, x.exponent, x.mantissa)

Positive(x) == x.sign > 0

\* |x| < |y|
Smaller(x, y) ==
    \/ x.sign = 0 /\ y.sign # 0
    \/ /\ x.sign # 0
       /\ y.sign # 0
       /\ \/ x.exponent < y.exponent
          \/ x.exponent = y.exponent /\ Less(x.mantissa, y.mantissa)

AtMost(x, y) ==
    \/ x = y
    \/ x.sign < y.sign
    \/ x.sign = 1 /\ y.sign = 1 /\ Smaller(x, y)
    \/ x.sign = 0 - 1 /\ y.sign = 0 - 1 /\ Smaller(y, x)

Column(a, b, k) ==
    Digit(a, k) * b[1] + Digit(a, k - 1) * b[2]
      + Digit(a, k - 2) * b[3] + Digit(a, k - 3) * b[4]

MulValues(x, y) ==
    IF x.sign = 0 \/ y.sign = 0 THEN Zero
    ELSE Round(x.sign * y.sign,
               Digits(<<Column(x.mantissa, y.mantissa, 1),
                        Column(x.mantissa, y.mantissa, 2),
                        Column(x.mantissa, y.mantissa, 3),
                        Column(x.mantissa, y.mantissa, 4),
                        Column(x.mantissa, y.mantissa, 5),
                        Column(x.mantissa, y.mantissa, 6),
                        Column(x.mantissa, y.mantissa, 7), 0>>),
               x.exponent + y.exponent, FALSE)

\* big + small for |big| >= |small| > 0
AddOrdered(big, small) ==
    IF big.exponent - small.exponent > MantissaBits + 3 THEN big
    ELSE CHOOSE f \in
           {Round(big.sign,
                  Digits(<<a[1] + s * small.mantissa[1],
                           a[2] + s * small.mantissa[2],
                           a[3] + s * small.mantissa[3],
                           a[4] + s * small.mantissa[4],
                           a[5], a[6], a[7], a[8]>>),
                  small.exponent, FALSE) :
              a \in {ShiftLeft(big.mantissa, big.exponent - small.exponent)},
              s \in {big.sign * small.sign}} : TRUE

AddValues(x, y) ==
    IF x.sign = 0 THEN y
    ELSE IF y.sign = 0 THEN x
    ELSE IF Smaller(x, y) THEN AddOrdered(y, x)
    ELSE AddOrdered(x, y)

\* the program's *, + and - on doubles
emul(a, b) == CHOOSE f \in {MulValues(x, y) : x \in {a}, y \in {b}} : TRUE
eadd(a, b) == CHOOSE f \in {AddValues(x, y) : x \in {a}, y \in {b}} : TRUE
esub(a, b) ==
    CHOOSE f \in {AddValues(x, Negate(y)) : x \in {a}, y \in {b}} : TRUE

\* the double of an angle in degrees, read as a number
DegreesValue(x) ==
    CHOOSE f \in
        {Round(Sign(a),
               Digits(<<abs(a) - Deg(Whole(abs(a))), 0, 0,
                        Whole(abs(a)) * TwoTo[TopBits - 1], 0>>),
               0 - (MantissaBits - 1), FALSE) : a \in {x}} : TRUE

(***************************************************************************)
(* Class attributes of RayGenerator.                                       *)
(***************************************************************************)
secondary_rays_number == 8
spotlight_rays == 12
spotlight_base_energy_factor == Literal(35, 100)     \* 0.35
spotlight_degrees_range == 30
energy_loss_per_degree == Literal(3, 10)              \* 0.3
energy_loss_per_pixel_traveled == Literal(5, 100)     \* 0.05

(***************************************************************************)
(* The collaborators: Point, UnitVector, Ray, AngleRange, LineSegment.     *)
(***************************************************************************)
Points == {0, 50}       \* pixel abscissas of the points of the scene
SonarPoints == {0}      \* where the sonar stands

get_distance_to(p, q) == abs(p - q)

\* bearing from p to q, in radians, normalized to [0, 2pi)
get_angle_to(p, q) == IF q >= p THEN radians(Deg(0)) ELSE radians(Deg(180))

UnitVector(origin_point, angle) ==
    [origin_point |-> origin_point, angle |-> angle]

Ray(angle_from_sonar, vector, energy, traveled_distance, bounces) ==
    [angle_from_sonar |-> angle_from_sonar, vector |-> vector,
     energy |-> energy, traveled_distance |-> traveled_distance,
     bounces |-> bounces]

\* defaults of the Ray constructor: zero distance, zero bounces
DefaultDistance == 0
DefaultBounces == 0

\* the energy a Ray is constructed with when none is given ("full energy")
InitEnergies == {Integral(27)}

AngleRange(min_angle, max_angle) == [min |-> min_angle, max |-> max_angle]

\* the whole degrees of an arc: from the first one at or above its lower
\* bound to the last one at or below its upper bound
ArcLow(range) == (range.min \div 2 + DegUnit - 1) \div DegUnit
ArcHigh(range) == (range.max \div 2) \div DegUnit

\* width in whole degrees of an arc, which wraps past 0 when max < min
ArcWidth(range) ==
    IF range.min <= range.max THEN ArcHigh(range) - ArcLow(range)
    ELSE ArcHigh(range) + 360 - ArcLow(range)

\* AngleRange.get_random_angle_in_range, the n-th draw (0 <= n < ArcDraws):
\* the radians of a whole degree of the arc, from its lower end (n = 0) to
\* its upper end (n = ArcDraws - 1), wrapped past 2pi when the arc wraps
get_random_angle_in_range(range, n) ==
    CHOOSE angle \in
        {LET d == ArcLow(self) + (n * ArcWidth(self)) \div (ArcDraws - 1)
         IN  IF n = ArcDraws - 1 THEN radians(Deg(ArcHigh(self)))
             ELSE IF self.min > self.max /\ d >= 360 THEN radians(Deg(d - 360))
             ELSE radians(Deg(d)) : self \in {range}} : TRUE

\* the randomness source: the draw of the i-th call (i = 1, 2, ...)
Rngs == [seed : 0 .. ArcDraws - 1, stride : {0, 1}]
Draw(rng, i) == (rng.seed + (i - 1) * rng.stride) % ArcDraws

\* LineSegment, by the answers it gives to the ray that hits it
LineSegments ==
    [intersection_point : Points,
     reflected_angle : {radians(Deg(d)) : d \in {0, 180, 330}},
     absorption : {Zero, Integral(10)}]

get_intersection_point(line_segment, vector) == line_segment.intersection_point

get_reflected_vector(line_segment, point, vector) ==
    UnitVector(point, line_segment.reflected_angle)

get_energy_with_absorption_loss(line_segment, energy) ==
    esub(energy, line_segment.absorption)

(***************************************************************************)
(* Faulty variants of get_degrees_difference: the plain subtraction, and a *)
(* fold that looks for the fourth-quadrant angle in the second argument    *)
(* only.                                                                   *)
(***************************************************************************)
get_degrees_difference_plain(a, b) == abs(fsub(a, b))

get_degrees_difference_one_sided(a, b) ==
    CHOOSE degrees_difference \in
        {IF x < Deg(90) /\ y > Deg(270) THEN fadd(x, fsub(Deg(360), y))
         ELSE abs(fsub(x, y)) : x \in {a}, y \in {b}} : TRUE

(***************************************************************************)
(* RayGenerator.get_degrees_difference                                     *)
(***************************************************************************)
get_degrees_difference(a, b) ==
    CHOOSE degrees_difference \in
        {LET between_first_and_fourth_quadrant ==
                 (x < Deg(90) /\ y > Deg(270)) \/ (y < Deg(90) /\ x > Deg(270))
         IN  IF between_first_and_fourth_quadrant
             THEN LET fa == IF x > Deg(270) THEN fsub(Deg(360), x) ELSE x
                      fb == IF y > Deg(270) THEN fsub(Deg(360), y) ELSE y
                  IN  fadd(fa, fb)
             ELSE abs(fsub(x, y)) : x \in {a}, y \in {b}} : TRUE

(***************************************************************************)
(* Faulty variants of get_energy_with_degrees_loss: the loss added, and    *)
(* the loss forgotten.                                                     *)
(***************************************************************************)
get_energy_with_degrees_gain(source_energy, source_degrees, ray_degrees) ==
    eadd(source_energy,
         emul(DegreesValue(get_degrees_difference(source_degrees, ray_degrees)),
              energy_loss_per_degree))

get_energy_without_degrees_loss(source_energy, source_degrees, ray_degrees) ==
    source_energy

(***************************************************************************)
(* RayGenerator.get_energy_with_degrees_loss                               *)
(***************************************************************************)
get_energy_with_degrees_loss(source_energy, source_degrees, ray_degrees) ==
    LET degrees_difference == get_degrees_difference(source_degrees, ray_degrees)
    IN  esub(source_energy,
             emul(DegreesValue(degrees_difference), energy_loss_per_degree))

(***************************************************************************)
(* RayGenerator.get_energy_with_distance_loss                              *)
(***************************************************************************)
get_energy_with_distance_loss(source_energy, traveled_distance) ==
    esub(source_energy,
         emul(Integral(traveled_distance), energy_loss_per_pixel_traveled))

(***************************************************************************)
(* RayGenerator.get_initial_sonar_rays                                     *)
(***************************************************************************)
RECURSIVE initial_loop(_, _, _, _, _, _)
initial_loop(sonar_point, range_angle, energy, rng, i, rays) ==
    IF i > secondary_rays_number THEN rays
    ELSE LET angle == get_random_angle_in_range(range_angle, Draw(rng, i))
             ray == Ray(degrees(angle), UnitVector(sonar_point, angle),
                        energy, DefaultDistance, DefaultBounces)
         IN  initial_loop(sonar_point, range_angle, energy, rng, i + 1,
                          Append(rays, ray))

\* the lists of rays the call can return, one for each behaviour of the
\* randomness source
get_initial_sonar_rays(sonar_point, range_angle, energy) ==
    {initial_loop(sonar_point, range_angle, energy, rng, 1, <<>>) :
       rng \in Rngs}

(***************************************************************************)
(* RayGenerator.get_spotlight_rays                                         *)
(***************************************************************************)
spotlight_min_angle(primary_ray) ==
    LET min_angle == fsub(degrees(primary_ray.vector.angle),
                          Deg(spotlight_degrees_range))
    IN  IF min_angle < 0 THEN fadd(Deg(360), min_angle) ELSE min_angle

spotlight_max_angle(primary_ray) ==
    LET max_angle == fadd(degrees(primary_ray.vector.angle),
                          Deg(spotlight_degrees_range))
    IN  IF max_angle > Deg(360) THEN fsub(max_angle, Deg(360)) ELSE max_angle

\* faulty variant: the bounds handed over in degrees, not in radians
spotlight_angle_range_in_degrees(primary_ray) ==
    AngleRange(spotlight_min_angle(primary_ray), spotlight_max_angle(primary_ray))

spotlight_angle_range(primary_ray) ==
    AngleRange(radians(spotlight_min_angle(primary_ray)),
               radians(spotlight_max_angle(primary_ray)))

\* one turn of the loop: the candidate ray for the angle the sampler returned
spotlight_turn(primary_ray, base_energy, ray_angle) ==
    CHOOSE ray \in
        {Ray(primary_ray.angle_from_sonar,
             UnitVector(primary_ray.vector.origin_point, angle),
             get_energy_with_degrees_loss(base_energy,
                 degrees(primary_ray.vector.angle), degrees(angle)),
             primary_ray.traveled_distance, primary_ray.bounces) :
           angle \in {ray_angle}} : TRUE

\* the candidate ray of a turn depends on the draw of the sampler only: the
\* candidate rays by draw, from the n-th draw on
RECURSIVE spotlight_turns(_, _, _, _, _)
spotlight_turns(primary_ray, angle_range, base_energy, n, turns) ==
    IF n = ArcDraws THEN turns
    ELSE spotlight_turns(primary_ray, angle_range, base_energy, n + 1,
             Append(turns,
                    spotlight_turn(primary_ray, base_energy,
                        get_random_angle_in_range(angle_range, n))))

\* the loop over spotlight_rays candidate rays, from the i-th turn on
RECURSIVE spotlight_loop(_, _, _, _)
spotlight_loop(turns, rng, i, rays) ==
    IF i > spotlight_rays THEN rays
    ELSE LET ray == turns[Draw(rng, i) + 1]
         IN  spotlight_loop(turns, rng, i + 1,
                 IF Positive(ray.energy) THEN Append(rays, ray) ELSE rays)

\* the arc and the base energy are computed once, before the loop; the
\* lists of rays the call can return, one for each behaviour of the
\* randomness source
get_spotlight_rays(primary_ray) ==
    UNION {{spotlight_loop(turns, rng, 1, <<>>) : rng \in Rngs} :
             turns \in {spotlight_turns(primary_ray, angle_range, base_energy,
                                         0, <<>>) :
                          angle_range \in {spotlight_angle_range(primary_ray)},
                          base_energy \in {emul(primary_ray.energy,
                                                spotlight_base_energy_factor)}}}

(***************************************************************************)
(* RayGenerator.get_secondary_rays                                         *)
(***************************************************************************)
\* one turn of the loop: the candidate ray for the angle the sampler returned
secondary_turn(primary_ray, sampled) ==
    CHOOSE ray \in
        {LET point == primary_ray.vector.origin_point
             energy == get_energy_with_degrees_loss(primary_ray.energy,
                           degrees(primary_ray.vector.angle), degrees(angle))
         IN  Ray(primary_ray.angle_from_sonar, UnitVector(point, angle),
                 energy, primary_ray.traveled_distance, DefaultBounces) :
           angle \in {sampled}} : TRUE

\* the candidate rays by draw, from the n-th draw on
RECURSIVE secondary_turns(_, _, _, _)
secondary_turns(primary_ray, range_angle, n, turns) ==
    IF n = ArcDraws THEN turns
    ELSE secondary_turns(primary_ray, range_angle, n + 1,
             Append(turns,
                    secondary_turn(primary_ray,
                        get_random_angle_in_range(range_angle, n))))

\* faulty variant: every candidate ray is kept, whatever its energy
RECURSIVE secondary_loop_no_cull(_, _, _, _)
secondary_loop_no_cull(turns, rng, i, rays) ==
    IF i > secondary_rays_number THEN rays
    ELSE LET ray == turns[Draw(rng, i) + 1]
         IN  secondary_loop_no_cull(turns, rng, i + 1, Append(rays, ray))

\* the loop over secondary_rays_number candidate rays, from the i-th turn on
RECURSIVE secondary_loop(_, _, _, _)
secondary_loop(turns, rng, i, rays) ==
    IF i > secondary_rays_number THEN rays
    ELSE LET ray == turns[Draw(rng, i) + 1]
         IN  secondary_loop(turns, rng, i + 1,
                 IF Positive(ray.energy) THEN Append(rays, ray) ELSE rays)

\* the lists of rays the call can return, one for each behaviour of the
\* randomness source
get_secondary_rays(primary_ray, range_angle) ==
    UNION {{secondary_loop(turns, rng, 1, <<>>) : rng \in Rngs} :
             turns \in {secondary_turns(primary_ray, range_angle, 0, <<>>)}}

(***************************************************************************)
(* Faulty variants of get_reflected_ray: the reflected heading stored as   *)
(* angle_from_sonar, and the distance and the bounces of the source ray    *)
(* not carried over (every reflection counted as the first hop).           *)
(***************************************************************************)
get_reflected_ray_own_angle(source_ray, line_segment) ==
    LET reflection_point == get_intersection_point(line_segment, source_ray.vector)
        reflected_vector == get_reflected_vector(line_segment, reflection_point,
                                                 source_ray.vector)
        absorbed == get_energy_with_absorption_loss(line_segment, source_ray.energy)
        energy == get_energy_with_degrees_loss(absorbed,
                      degrees(get_angle_to(reflected_vector.origin_point,
                                           source_ray.vector.origin_point)),
                      degrees(reflected_vector.angle))
    IN  Ray(degrees(reflected_vector.angle), reflected_vector, energy,
            source_ray.traveled_distance
              + get_distance_to(reflection_point, source_ray.vector.origin_point),
            source_ray.bounces + 1)

get_reflected_ray_first_hop(source_ray, line_segment) ==
    LET reflection_point == get_intersection_point(line_segment, source_ray.vector)
        reflected_vector == get_reflected_vector(line_segment, reflection_point,
                                                 source_ray.vector)
        absorbed == get_energy_with_absorption_loss(line_segment, source_ray.energy)
        energy == get_energy_with_degrees_loss(absorbed,
                      degrees(get_angle_to(reflected_vector.origin_point,
                                           source_ray.vector.origin_point)),
                      degrees(reflected_vector.angle))
    IN  Ray(source_ray.angle_from_sonar, reflected_vector, energy,
            get_distance_to(reflection_point, source_ray.vector.origin_point),
            DefaultBounces + 1)

(***************************************************************************)
(* RayGenerator.get_reflected_ray                                          *)
(***************************************************************************)
get_reflected_ray(source_ray, line_segment) ==
    LET reflection_point == get_intersection_point(line_segment, source_ray.vector)
        reflected_vector == get_reflected_vector(line_segment, reflection_point,
                                                 source_ray.vector)
        traveled_distance == source_ray.traveled_distance
            + get_distance_to(reflection_point, source_ray.vector.origin_point)
        bounces == source_ray.bounces + 1
        degrees_from_reflection_point_to_source_ray_origin ==
            degrees(get_angle_to(reflected_vector.origin_point,
                                 source_ray.vector.origin_point))
        absorbed == get_energy_with_absorption_loss(line_segment, source_ray.energy)
        energy == get_energy_with_degrees_loss(absorbed,
                      degrees_from_reflection_point_to_source_ray_origin,
                      degrees(reflected_vector.angle))
    IN  Ray(source_ray.angle_from_sonar, reflected_vector, energy,
            traveled_distance, bounces)

(***************************************************************************)
(* RayGenerator.get_returning_reflected_ray                                *)
(***************************************************************************)
get_returning_reflected_ray(reflected_ray, source_ray) ==
    LET angle == get_angle_to(reflected_ray.vector.origin_point,
                              source_ray.vector.origin_point)
        energy == get_energy_with_degrees_loss(reflected_ray.energy,
                      degrees(angle), degrees(reflected_ray.vector.angle))
        vector == UnitVector(reflected_ray.vector.origin_point, angle)
    IN  Ray(source_ray.angle_from_sonar, vector, energy,
            reflected_ray.traveled_distance, reflected_ray.bounces)

(***************************************************************************)
(* The arcs a caller passes: the sonar's field of view and the arcs of     *)
(* secondary emission.                                                     *)
(***************************************************************************)
FovArcs == {AngleRange(radians(Deg(0)), radians(Deg(30)))}

SecondaryArcs == {AngleRange(radians(Deg(0)), radians(Deg(90))),
                  AngleRange(radians(Deg(300)), radians(Deg(30)))}

NoRay == Ray(0, UnitVector(0, 0), Zero, 0, 0)
NoArc == AngleRange(0, 0)
NoSegment ==
    [intersection_point |-> 0, reflected_angle |-> 0, absorption |-> Zero]
NoDifference == <<>>

(***************************************************************************)
(* Initial state: no ray has been generated.                               *)
(***************************************************************************)
Init ==
    /\ phase = "idle"
    /\ cur = NoRay
    /\ root = 0
    /\ spots = 0
    /\ op = "none"
    /\ source = NoRay
    /\ reflected = NoRay
    /\ out = <<>>
    /\ arc = NoArc
    /\ hit = NoSegment
    /\ received = Zero
    /\ angle_a = 0
    /\ angle_b = 0
    /\ difference = NoDifference

(***************************************************************************)
(* The sonar shoots: get_initial_sonar_rays.                               *)
(***************************************************************************)
InitialSonarRays ==
    /\ phase = "idle"
    /\ \E sonar_point \in SonarPoints, range_angle \in FovArcs,
          energy \in InitEnergies :
          /\ out' \in get_initial_sonar_rays(sonar_point, range_angle, energy)
          /\ arc' = range_angle
    /\ phase' = "spawned"
    /\ op' = "initial"
    /\ UNCHANGED <<cur, root, spots, source, reflected, hit, received>>
    /\ UNCHANGED diffVars

(***************************************************************************)
(* The caller takes one of the returned rays as the next ray to derive     *)
(* from.  Follow(k) takes any returned ray, FollowLive(k) only a ray the   *)
(* caller does not discard (energy > 0).                                   *)
(***************************************************************************)
Follow(k) ==
    /\ phase = "spawned"
    /\ k \in 1 .. Len(out)
    /\ cur' = out[k]
    /\ root' = IF op = "initial" THEN out[k].angle_from_sonar ELSE root
    /\ spots' = IF op = "spotlight" THEN spots + 1 ELSE spots
    /\ phase' = "ready"
    /\ op' = "none"
    /\ source' = NoRay
    /\ reflected' = NoRay
    /\ out' = <<>>
    /\ arc' = NoArc
    /\ hit' = NoSegment
    /\ received' = Zero
    /\ UNCHANGED diffVars

FollowAny == \E k \in 1 .. Len(out) : Follow(k)

FollowLive == \E k \in 1 .. Len(out) : Positive(out[k].energy) /\ Follow(k)

(***************************************************************************)
(* get_spotlight_rays applied to the current ray.                          *)
(***************************************************************************)
SpotlightRays ==
    /\ phase = "ready"
    /\ spots < MaxSpotlights
    /\ out' \in get_spotlight_rays(cur)
    /\ arc' = spotlight_angle_range(cur)
    /\ source' = cur
    /\ phase' = "spawned"
    /\ op' = "spotlight"
    /\ UNCHANGED <<cur, root, spots, reflected, hit, received>>
    /\ UNCHANGED diffVars

(***************************************************************************)
(* get_secondary_rays applied to the current ray.                          *)
(***************************************************************************)
SecondaryRays ==
    /\ phase = "ready"
    /\ \E range_angle \in SecondaryArcs :
          /\ out' \in get_secondary_rays(cur, range_angle)
          /\ arc' = range_angle
    /\ source' = cur
    /\ phase' = "spawned"
    /\ op' = "secondary"
    /\ UNCHANGED <<cur, root, spots, reflected, hit, received>>
    /\ UNCHANGED diffVars

(***************************************************************************)
(* get_reflected_ray: the current ray hits a line segment, some way from   *)
(* its origin.  A chain reflects again and again, up to MaxDistance pixels *)
(* travelled in all; the program itself sets no limit.                     *)
(***************************************************************************)
ReflectedRay ==
    /\ phase = "ready"
    /\ \E line_segment \in LineSegments :
          /\ line_segment.intersection_point # cur.vector.origin_point
          /\ cur.traveled_distance
               + get_distance_to(line_segment.intersection_point,
                                 cur.vector.origin_point) <= MaxDistance
          /\ out' = <<get_reflected_ray(cur, line_segment)>>
          /\ hit' = line_segment
    /\ source' = cur
    /\ phase' = "spawned"
    /\ op' = "reflected"
    /\ UNCHANGED <<cur, root, spots, reflected, arc, received>>
    /\ UNCHANGED diffVars

(***************************************************************************)
(* get_returning_reflected_ray: on each reflection the ray that returns    *)
(* towards the origin of the source ray is created from the reflected ray. *)
(***************************************************************************)
ReturningReflectedRay ==
    /\ phase = "spawned"
    /\ op = "reflected"
    /\ out' = <<get_returning_reflected_ray(out[1], source)>>
    /\ reflected' = out[1]
    /\ op' = "returning"
    /\ UNCHANGED <<phase, cur, root, spots, source, arc, hit, received>>
    /\ UNCHANGED diffVars

(***************************************************************************)
(* get_energy_with_distance_loss: the returning ray hits the sonar, which  *)
(* receives its energy less the loss over the distance it travelled.       *)
(***************************************************************************)
SonarHit ==
    /\ phase = "spawned"
    /\ op = "returning"
    /\ received' = get_energy_with_distance_loss(out[1].energy,
                                                 out[1].traveled_distance)
    /\ op' = "received"
    /\ UNCHANGED <<phase, cur, root, spots, source, reflected, out, arc, hit>>
    /\ UNCHANGED diffVars

Next ==
    \/ InitialSonarRays
    \/ FollowAny
    \/ SpotlightRays
    \/ SecondaryRays
    \/ ReflectedRay
    \/ ReturningReflectedRay
    \/ SonarHit

Spec == Init /\ [][Next]_vars

(***************************************************************************)
(* The cascade: the caller discards every ray whose energy is <= 0 and     *)
(* keeps deriving from the live ones for as long as there are any.         *)
(***************************************************************************)
CascadeNext ==
    \/ InitialSonarRays
    \/ FollowLive
    \/ ReflectedRay
    \/ ReturningReflectedRay
    \/ SonarHit
    \/ SecondaryRays
    \/ SpotlightRays

CascadeSpec == Init /\ [][CascadeNext]_vars /\ WF_vars(CascadeNext)

(***************************************************************************)
(* get_degrees_difference as a pure function of two normalized angles, in  *)
(* whole degrees.                                                          *)
(***************************************************************************)
NormalizedDegrees == 0 .. 359

DiffInit ==
    /\ phase = "idle"
    /\ cur = NoRay
    /\ root = 0
    /\ spots = 0
    /\ op = "none"
    /\ source = NoRay
    /\ reflected = NoRay
    /\ out = <<>>
    /\ arc = NoArc
    /\ hit = NoSegment
    /\ received = Zero
    /\ angle_a \in NormalizedDegrees
    /\ angle_b \in NormalizedDegrees
    /\ difference = NoDifference

\* the function is applied to the pair and to the swapped pair
DegreesDifference ==
    /\ difference = NoDifference
    /\ difference' = <<get_degrees_difference(Deg(angle_a), Deg(angle_b)),
                       get_degrees_difference(Deg(angle_b), Deg(angle_a))>>
    /\ UNCHANGED <<angle_a, angle_b>>
    /\ UNCHANGED rayVars

DiffNext == DegreesDifference

DiffSpec == DiffInit /\ [][DiffNext]_vars

(***************************************************************************)
(* get_spotlight_rays on its own, for a primary ray of every normalized    *)
(* heading (in whole degrees) and of positive, zero and negative energy.   *)
(***************************************************************************)
SpotlightEnergies ==
    {Integral(n) : n \in {0 - 20, 0, 20, 60, 100}}

SpotInit ==
    /\ phase = "ready"
    /\ cur \in {Ray(degrees(radians(Deg(h))), UnitVector(0, radians(Deg(h))),
                     e, DefaultDistance, DefaultBounces) :
                  h \in NormalizedDegrees, e \in SpotlightEnergies}
    /\ root = cur.angle_from_sonar
    /\ spots = 0
    /\ op = "none"
    /\ source = NoRay
    /\ reflected = NoRay
    /\ out = <<>>
    /\ arc = NoArc
    /\ hit = NoSegment
    /\ received = Zero
    /\ angle_a = 0
    /\ angle_b = 0
    /\ difference = NoDifference

SpotNext == SpotlightRays

SpotSpec == SpotInit /\ [][SpotNext]_vars

(***************************************************************************)
(* Vocabulary of the properties.                                           *)
(***************************************************************************)
Called == difference # NoDifference

Spawned(o) == phase = "spawned" /\ op = o

Derived == phase = "spawned"
             /\ op \in {"spotlight", "secondary", "reflected", "returning"}

Heading(ray) == degrees(ray.vector.angle)

\* the ray a returned ray was generated from
Generating == IF op = "returning" THEN reflected ELSE source

\* the heading the angular loss of the returned rays was measured from
ReferenceDegrees ==
    IF op = "reflected"
    THEN degrees(get_angle_to(out[1].vector.origin_point,
                              source.vector.origin_point))
    ELSE IF op = "returning" THEN Heading(reflected)
    ELSE Heading(source)

Deviation(k) == get_degrees_difference(ReferenceDegrees, Heading(out[k]))

\* the shorter of the two arcs between two normalized angles, in whole
\* degrees
MinimalSeparation(a, b) ==
    IF abs(a - b) > 180 THEN 360 - abs(a - b) ELSE abs(a - b)

FirstAndFourthQuadrant(a, b) == (a < 90 /\ b > 270) \/ (b < 90 /\ a > 270)

\* a heading normalized to [0, 360)
Normalized(x) == 0 <= x /\ x < Deg(360)

\* 2^-40 degree, above what the roundings of one conversion to radians and
\* back and of two sums add up to below 512 degrees
RoundingSlack == Pow(2, 12)

(***************************************************************************)
(* C1: for all angles a, b normalized to [0,360), get_degrees_difference   *)
(* returns the minimal angular separation, a value in [0,180].             *)
(* The code returns |a - b| outside the first/fourth quadrant case, which  *)
(* exceeds 180 for pairs such as (10, 200).                                *)
(***************************************************************************)
C1_MinimalSeparation ==
    Called => /\ difference[1] = Deg(MinimalSeparation(angle_a, angle_b))
              /\ 0 <= difference[1]
              /\ difference[1] <= Deg(180)

(***************************************************************************)
(* C2: when one angle is in the first quadrant (< 90) and the other in the *)
(* fourth (> 270), get_degrees_difference returns the short arc across the *)
(* 0/360 boundary, 360 - |a - b|.                                          *)
(***************************************************************************)
C2_WrapShortArc ==
    (Called /\ FirstAndFourthQuadrant(angle_a, angle_b))
        => difference[1] = Deg(360 - abs(angle_a - angle_b))

C2_Witness ==
    Called /\ angle_a = 5 /\ angle_b = 355 /\ difference[1] = Deg(10)

(***************************************************************************)
(* C3: get_degrees_difference is symmetric in its two arguments, in the    *)
(* wrap-around branch and in the plain-subtraction branch.                 *)
(***************************************************************************)
C3_Symmetric == Called => difference[1] = difference[2]

C3_Witness ==
    Called /\ angle_a = 355 /\ angle_b = 5 /\ difference[2] = Deg(10)

(***************************************************************************)
(* C4: every ray returned by get_spotlight_rays for a primary ray heading  *)
(* in [0,360) has a heading whose get_degrees_difference from the primary  *)
(* heading is at most spotlight_degrees_range (30).                        *)
(* As stated this fails by the rounding of the conversions between degrees *)
(* and radians: for a heading of 18 degrees the arc ends at radians(48),   *)
(* and the ray sampled there has a heading of degrees(radians(48)), the    *)
(* double next above 48, which differs from 18 by more than 30.            *)
(***************************************************************************)
C4_SpotlightWithinRange ==
    (Spawned("spotlight") /\ Normalized(Heading(source)))
        => \A k \in 1 .. Len(out) :
              get_degrees_difference(Heading(source), Heading(out[k]))
                  <= Deg(spotlight_degrees_range)

(***************************************************************************)
(* C4, amended: every ray returned by get_spotlight_rays for a primary ray *)
(* heading in [0,360) has a heading whose get_degrees_difference from the  *)
(* primary heading is at most 30 degrees up to the rounding of the         *)
(* floating-point conversions: it is below 30 + 2^-40.                     *)
(***************************************************************************)
C4_WithinRangeUpToRounding ==
    (Spawned("spotlight") /\ Normalized(Heading(source)))
        => \A k \in 1 .. Len(out) :
              get_degrees_difference(Heading(source), Heading(out[k]))
                  < Deg(spotlight_degrees_range) + RoundingSlack

\* a spotlight ray at the end of the arc, more than 30 degrees from the
\* heading of its primary ray by the rounding alone
C4_Witness ==
    /\ Spawned("spotlight")
    /\ Normalized(Heading(source))
    /\ \E k \in 1 .. Len(out) :
          /\ Whole(get_degrees_difference(Heading(source), Heading(out[k])))
                = spotlight_degrees_range
          /\ get_degrees_difference(Heading(source), Heading(out[k]))
                > Deg(spotlight_degrees_range)

(***************************************************************************)
(* C5: get_secondary_rays returns at most secondary_rays_number rays and   *)
(* get_spotlight_rays at most spotlight_rays rays, and every returned ray  *)
(* has energy > 0, whatever the energy of the primary ray.                 *)
(***************************************************************************)
C5_CountAndPositiveEnergy ==
    /\ Spawned("secondary")
         => /\ Len(out) <= secondary_rays_number
            /\ \A k \in 1 .. Len(out) : Positive(out[k].energy)
    /\ Spawned("spotlight")
         => /\ Len(out) <= spotlight_rays
            /\ \A k \in 1 .. Len(out) : Positive(out[k].energy)

\* some of the candidate rays were culled, and one of the rays returned has
\* an energy that is positive by the rounding of the angular loss alone,
\* below 2^-40
C5_Witness ==
    /\ Spawned("secondary")
    /\ Len(out) < secondary_rays_number
    /\ \E k \in 1 .. Len(out) :
          /\ Positive(out[k].energy)
          /\ out[k].energy.exponent < 0 - 40 - MantissaBits

(***************************************************************************)
(* C6: every ray produced by get_spotlight_rays, get_secondary_rays,       *)
(* get_reflected_ray or get_returning_reflected_ray has energy at most the *)
(* energy of the ray it was generated from, after any sequence of steps    *)
(* (the segment never gives back more energy than it receives).            *)
(***************************************************************************)
C6_NoEnergyGain ==
    Derived => \A k \in 1 .. Len(out) :
                  AtMost(out[k].energy, Generating.energy)

\* a returning ray, two generations below a spotlight ray
C6_Witness ==
    /\ Spawned("returning")
    /\ spots > 0
    /\ ~AtMost(reflected.energy, out[1].energy)
    /\ ~AtMost(source.energy, reflected.energy)

(***************************************************************************)
(* C7: the cascade terminates: deriving from live rays and discarding the  *)
(* rays of energy <= 0, eventually no live ray is left.                    *)
(* As stated this fails: a secondary ray sampled at the heading of its     *)
(* primary ray has the energy of the primary ray, and so on for ever.      *)
(***************************************************************************)
CascadeEnded ==
    /\ phase = "spawned"
    /\ \A k \in 1 .. Len(out) : ~Positive(out[k].energy)

UndeviatedRay ==
    /\ Derived
    /\ \E k \in 1 .. Len(out) :
          Positive(out[k].energy) /\ Deviation(k) < Deg(1)

C8_SonarAnglePreserved ==
    /\ phase = "ready" => cur.angle_from_sonar = root
    /\ Derived => \A k \in 1 .. Len(out) : out[k].angle_from_sonar = root
    /\ Spawned("returning") => out[1].angle_from_sonar = source.angle_from_sonar

C8_Witness ==
    /\ Spawned("returning")
    /\ Whole(root) = 30
    /\ Heading(source) # root
    /\ Heading(reflected) # root
    /\ Heading(out[1]) # root
    /\ out[1].angle_from_sonar = root

(***************************************************************************)
(* C9: get_reflected_ray returns exactly one ray, also when its energy is  *)
(* <= 0, with bounces = source.bounces + 1 and traveled_distance =         *)
(* source.traveled_distance + distance(intersection point, source origin). *)
(***************************************************************************)
C9_ReflectedRay ==
    Spawned("reflected")
        => /\ Len(out) = 1
           /\ out[1].bounces = source.bounces + 1
           /\ out[1].traveled_distance =
                 source.traveled_distance
                   + get_distance_to(hit.intersection_point,
                                     source.vector.origin_point)

\* the second reflection of a chain: the source ray has bounced and
\* travelled already, and the reflected ray is returned without energy
C9_Witness ==
    /\ Spawned("reflected")
    /\ Len(out) = 1
    /\ ~Positive(out[1].energy)
    /\ source.bounces > 0
    /\ source.traveled_distance > 0
    /\ out[1].bounces > 1
    /\ out[1].traveled_distance > source.traveled_distance

(***************************************************************************)
(* C10: for every primary heading in [0,360) both bounds of the arc that   *)
(* get_spotlight_rays passes to the sampler lie in [0,360), and the arc is *)
(* wrapped (min > max) exactly when heading - 30 < 0 or heading + 30 > 360.*)
(* The code leaves the upper bound at 360 for a heading of radians(330),   *)
(* and the lower bound at 360 for a heading of radians(30), which          *)
(* math.degrees returns as the double next below 30.                       *)
(***************************************************************************)
C10_ArcBoundsNormalized ==
    (Spawned("spotlight") /\ Normalized(Heading(source)))
        => /\ radians(Deg(0)) <= arc.min /\ arc.min < radians(Deg(360))
           /\ radians(Deg(0)) <= arc.max /\ arc.max < radians(Deg(360))
           /\ (arc.min > arc.max)
                 <=> \/ fsub(Heading(source), Deg(spotlight_degrees_range)) < 0
                     \/ fadd(Heading(source), Deg(spotlight_degrees_range))
                          > Deg(360)

====
